---------------------------- MODULE Spec2Model ----------------------------
(***************************************************************************)
(* Alert reconciliation engine of alert-manager: the Grafana/JSM matcher  *)
(* (jsm_service.py), the synchronization pass (alert_service.py) and the  *)
(* cron scheduler (scheduler_service.py).                                  *)
(*                                                                         *)
(* Text values are modelled as sequences of tokens (the pieces a name      *)
(* splits into at '-', '_' or blanks, the words of a message).  The empty  *)
(* string is <<>>, Python's None is the one-token sequence NoneStr.        *)
(* Identifiers and status values are plain strings, None being NULL.       *)
(***************************************************************************)
EXTENDS Integers, Sequences, FiniteSets, TLC

VARIABLES
    \* ---- matcher harness (JSMService.match_grafana_with_jsm as a pure function)
    gl,          \* the grafana_alerts argument
    jl,          \* the jsm_alerts argument
    mres,        \* the returned list of match_info, <<>> before the call
    mpc,         \* "input" | "done" | "again" | "raised" | "off"
    \* ---- the Store and one synchronization pass (AlertService.sync_alerts)
    db,              \* committed rows of table alerts, by alert_id
    sess,            \* the rows as the pass's Session sees them (flushed, uncommitted)
    db_before,       \* db when the pass began
    pc,              \* "idle", the step about to run, "HUNG", "COMMITTED" or "ABORTED"
    steps,           \* the steps run so far in this pass
    grafana_alerts,  \* result of get_active_alerts
    jsm_alerts,      \* result of get_jsm_alerts
    fetch_out,       \* outcome of the two fetch calls
    filtered_grafana_alerts,
    matched_alerts,
    active_grafana_alert_ids,
    close_out,       \* outcome of close_jsm_alert for each stale row it is called for
    close_calls,     \* JSM alert ids passed to close_jsm_alert in this pass
    flush_failed,    \* position in matched_alerts whose db.flush() raised, or 0
    raised,          \* sync_alerts raised to its caller
    passes,          \* passes begun
    manual,          \* calls of acknowledge_alerts and resolve_alerts made
    request,         \* the manual call answered since the last pass: ids, actor, return value
    \* ---- SchedulerService and its BackgroundScheduler
    tables_ready,    \* the tables exist (readiness of the Store)
    jobs_loaded,     \* SchedulerService._jobs_loaded
    timers,          \* job name -> crontab expression of the job "job_<name>", or NULL
    instances,       \* job name -> instances of the job now running in the executor
    due,             \* job name -> firings that became due
    started,         \* job name -> firings submitted to the executor
    skipped,         \* job name -> firings skipped
    finished,        \* job name -> firings whose job function returned
    bodies           \* job name -> executions of the body of _sync_alerts_job

mvars == <<gl, jl, mres, mpc>>
evars == <<db, sess, db_before, pc, steps, grafana_alerts, jsm_alerts, fetch_out,
           filtered_grafana_alerts, matched_alerts, active_grafana_alert_ids,
           close_out, close_calls, flush_failed, raised, passes, manual, request>>
svars == <<tables_ready, jobs_loaded, timers, instances, due, started, skipped, finished,
           bodies>>
vars == <<mvars, evars, svars>>

----------------------------------------------------------------------------
(* Bounds of the model *)

MaxGrafana == 3      \* longest grafana_alerts list given to the matcher harness
MaxJsm == 3          \* longest jsm_alerts list given to the matcher harness
MaxFetchA == 2       \* longest list a pass fetches from Grafana
MaxFetchB == 2       \* longest list a pass fetches from JSM
MaxPasses == 2       \* passes in one behaviour
MaxFirings == 3      \* firings of one job that become due in one behaviour
MaxManual == 1       \* calls of acknowledge_alerts and resolve_alerts in one behaviour

----------------------------------------------------------------------------
(* Values *)

NULL == "NULL"                 \* None, for identifiers and status values
MISSING == "MISSING"           \* a dict without the key (jsm_alert['id'] raises KeyError)
NoneStr == <<"None">>          \* None, for text values
TNone == -1                    \* None, for timestamps
TBad == -2                     \* a timestamp string datetime.fromisoformat rejects
TNow == -3                     \* datetime.utcnow() of the running pass

Truthy(s) == s # NoneStr /\ s # <<>>

Min(a, b) == IF a < b THEN a ELSE b
Max(a, b) == IF a > b THEN a ELSE b
Abs(a) == IF a < 0 THEN -a ELSE a

ToSet(s) == {s[i] : i \in 1..Len(s)}

\* Python's `s in t` on text: s occurs in t as a contiguous run
Contains(t, s) ==
    \E i \in 0..(Len(t) - Len(s)) : SubSeq(t, i + 1, i + Len(s)) = s

\* no two records of the list share an id
UniqueIds(s) == \A i, k \in 1..Len(s) : s[i].id = s[k].id => i = k

\* all sequences over S of length at most n
SeqsUpTo(S, n) == UNION {[1..k -> S] : k \in 0..n}


----------------------------------------------------------------------------
(* Text helpers of the scorer *)

\* str.lower(): the catalogue's only tokens with capitals
LowerTok(t) ==
    CASE t = "Stage" -> "stage"
      [] t = "Critical" -> "critical"
      [] OTHER -> t

Lower(s) == [i \in DOMAIN s |-> LowerTok(s[i])]

\* the \w+ word inside a token (a marker token ends with ':')
Word(t) ==
    CASE t = "alert:" -> "alert"
      [] t = "alertname:" -> "alertname"
      [] t = "cluster:" -> "cluster"
      [] OTHER -> LowerTok(t)

\* a message is a sequence of blank-separated chunks, each a token sequence
MsgWords(msg) == UNION {{Word(msg[i][k]) : k \in 1..Len(msg[i])} : i \in 1..Len(msg)}

skip_words ==
    {"the", "a", "an", "and", "or", "but", "in", "on", "at", "to", "for", "of",
     "with", "by", "is", "are", "was", "were", "be", "been", "have", "has", "had",
     "do", "does", "did"}

Meaningful(W) == {w \in W : Len(w) > 2 /\ w \notin skip_words}

\* JSMService._get_common_words, on the two word sets
GetCommonWords(W1, W2) == Meaningful(W1) \cap Meaningful(W2)

\* JSMService._fuzzy_match: more than 0.6 of the larger word set is shared
fuzzy_match(n1, n2) ==
    LET words1 == ToSet(n1)
        words2 == ToSet(n2)
    IN  /\ words1 # {}
        /\ words2 # {}
        /\ 10 * Cardinality(words1 \cap words2) > 6 * Max(Cardinality(words1), Cardinality(words2))

\* first chunk that follows a marker chunk <<marker>> in the message, <<>> if none
RECURSIVE AfterMarker(_, _, _)
AfterMarker(msg, markers, i) ==
    IF i >= Len(msg) THEN <<>>
    ELSE IF Len(msg[i]) = 1 /\ msg[i][1] \in markers THEN msg[i + 1]
    ELSE AfterMarker(msg, markers, i + 1)

\* position of the first "cloud" token of a chunk that has tokens on both sides, 0 if none
CloudPos(c) ==
    LET P == {i \in 2..(Len(c) - 1) : c[i] = "cloud"}
    IN  IF P = {} THEN 0 ELSE CHOOSE i \in P : \A k \in P : i <= k

priority_map(p) ==
    CASE p = "P1" -> <<"critical">>
      [] p = "P2" -> <<"warning">>
      [] p \in {"P3", "P4", "P5"} -> <<"info">>
      [] OTHER -> <<"unknown">>

\* JSMService.extract_alert_name_from_jsm
RECURSIVE AlertNameTag(_, _)
AlertNameTag(tags, i) ==
    IF i > Len(tags) THEN <<>>
    ELSE IF tags[i].k = "alertname" THEN tags[i].v
    ELSE AlertNameTag(tags, i + 1)

extract_alert_name_from_jsm(j) ==
    LET byTag == AlertNameTag(j.tags, 1)
        byMsg == AfterMarker(j.message, {"alert:", "alertname:"}, 1)
    IN  IF \E i \in 1..Len(j.tags) : j.tags[i].k = "alertname" THEN byTag
        ELSE IF byMsg # <<>> THEN byMsg
        ELSE IF Truthy(j.alias) THEN <<"jsm">> \o j.alias
        ELSE <<"jsm", "alert", j.tinyId>>

\* JSMService.extract_cluster_from_jsm; NoneStr when nothing is found
RECURSIVE ClusterTag(_, _)
ClusterTag(tags, i) ==
    IF i > Len(tags) THEN NoneStr
    ELSE IF tags[i].k = "cluster" \/ "cluster" \in ToSet(Lower(tags[i].v)) THEN tags[i].v
    ELSE IF tags[i].k = "instance" /\ CloudPos(tags[i].v) > 0
         THEN SubSeq(tags[i].v, 1, CloudPos(tags[i].v) - 1)
    ELSE ClusterTag(tags, i + 1)

RECURSIVE CloudChunk(_, _)
CloudChunk(msg, i) ==
    IF i > Len(msg) THEN NoneStr
    ELSE IF CloudPos(msg[i]) > 0 THEN <<msg[i][CloudPos(msg[i]) - 1]>>
    ELSE CloudChunk(msg, i + 1)

extract_cluster_from_jsm(j) ==
    LET byTag == ClusterTag(j.tags, 1)
        byMsg == AfterMarker(j.message, {"cluster:"}, 1)
    IN  IF byTag # NoneStr THEN byTag
        ELSE IF byMsg # <<>> THEN byMsg
        ELSE CloudChunk(j.message, 1)

\* JSMService.extract_severity_from_jsm
RECURSIVE SeverityTag(_, _)
SeverityTag(tags, i) ==
    IF i > Len(tags) THEN NoneStr
    ELSE IF tags[i].k = "severity" THEN tags[i].v
    ELSE IF tags[i].k = "og_priority"
         THEN priority_map(IF Len(tags[i].v) = 1 THEN tags[i].v[1] ELSE "")
    ELSE SeverityTag(tags, i + 1)

extract_severity_from_jsm(j) ==
    LET byTag == SeverityTag(j.tags, 1)
    IN  IF byTag # NoneStr THEN byTag
        ELSE IF j.priority # NULL /\ j.priority # "" THEN priority_map(j.priority)
        ELSE <<"unknown">>

----------------------------------------------------------------------------
(* The records the fetches and the matcher harness draw from *)

GrafanaAlert(id, name, cluster, severity, summary, started_at, labels) ==
    [alert_id |-> id, alert_name |-> name, cluster |-> cluster, severity |-> severity,
     summary |-> summary, started_at |-> started_at, labels |-> labels]

Labels(cluster, env) == [null |-> FALSE, cluster |-> cluster, env |-> env]

gCpu ==
    GrafanaAlert("a1", <<"high", "cpu">>, <<"prod1">>, <<"critical">>,
                 <<"cpu", "above", "threshold", "on", "node">>, 5000,
                 Labels(<<"prod1">>, <<"prod">>))

gCpuUsage ==
    GrafanaAlert("a2", <<"high", "cpu", "usage">>, <<"prod2">>, <<"Critical">>,
                 <<"cpu", "usage", "high">>, 1600,
                 Labels(<<"prod2">>, <<"prod">>))

gDisk ==
    GrafanaAlert("a3", <<"disk", "full">>, <<"prod2">>, <<"warning">>,
                 <<>>, TNone,
                 Labels(<<"prod2">>, <<"prod">>))

\* five name tokens, and a start time that is no ISO timestamp
gIo ==
    GrafanaAlert("a4", <<"node", "disk", "io", "wait", "high">>, <<"prod1">>, <<"critical">>,
                 <<>>, TBad,
                 Labels(<<"prod1">>, <<"prod">>))

MatcherGrafana == {gCpu, gCpuUsage, gDisk, gIo}

\* the text create_alert_fingerprint hashes: name|cluster|severity|summary[:50]
FingerprintPrefix == 50

fingerprint_data(g) ==
    <<g.alert_name, g.cluster, g.severity,
      SubSeq(g.summary, 1, Min(FingerprintPrefix, Len(g.summary)))>>

\* sha256(...).hexdigest()[:16]: an opaque token per distinct text, no two texts sharing one
HashTokens == {"h1", "h2", "h3", "h4"}

sha256 ==
    LET D == {fingerprint_data(g) : g \in MatcherGrafana}
    IN  CHOOSE f \in [D -> HashTokens] : \A x, y \in D : f[x] = f[y] => x = y

\* JSMService.create_alert_fingerprint
create_alert_fingerprint(g) == <<sha256[fingerprint_data(g)]>>

Tag(k, v) == [k |-> k, v |-> v]

JsmAlert(id, tiny, status, acked, owner, priority, alias, tags, message, created, updated, source, integration, count) ==
    [id |-> id, tinyId |-> tiny, status |-> status, acknowledged |-> acked, owner |-> owner,
     priority |-> priority, alias |-> alias, tags |-> tags, message |-> message,
     createdAt |-> created, updatedAt |-> updated, source |-> source,
     integrationName |-> integration, count |-> count]

\* match_info['jsm_alert'] = None
NoJsm ==
    JsmAlert(NULL, NULL, NULL, FALSE, NULL, NULL, <<>>, <<>>, <<>>, TNone, TNone, NULL, NULL, 0)

jB1 ==
    JsmAlert("b1", "t1", "open", FALSE, NULL, "P1", <<>>,
             <<Tag("alertname", <<"high", "cpu">>), Tag("cluster", <<"prod1">>),
               Tag("severity", <<"critical">>)>>,
             <<>>, 1000, 1000, "Prometheus", "Prometheus", 1)

jB2 ==
    JsmAlert("b2", "t2", "acked", TRUE, "bob", "P2", <<>>, <<>>,
             << <<"alert:">>, <<"cpu">>, <<"usage">>, <<"above">>, <<"threshold">>, <<"node">> >>,
             TBad, 2000, "Grafana", "Webhook", 2)

jAlias ==
    JsmAlert("b3", "t3", "open", FALSE, NULL, "P3", create_alert_fingerprint(gCpu), <<>>,
             <<>>, TNone, TNone, "Opsgenie", "API", 1)

jExact ==
    JsmAlert("b4", "t4", "open", FALSE, NULL, "", <<>>,
             <<Tag("og_priority", <<"P1">>), Tag("instance", <<"prod1", "cloud", "aws">>),
               Tag("alertname", <<"high", "cpu">>)>>,
             << <<"cpu">>, <<"above">>, <<"threshold">>, <<"node">> >>,
             5000, 5000, "Other", "Grafana", 1)

\* a second alert raised for the same condition: jB1 under another id
jB1Twin == [jB1 EXCEPT !.id = "b5", !.tinyId = "t5"]

\* its name shares three tokens with the five of gIo, in another order
jIo ==
    JsmAlert("b6", "t6", "open", FALSE, NULL, "P3", <<>>,
             <<Tag("alertname", <<"io", "disk", "node">>), Tag("cluster", <<"prod1">>)>>,
             <<>>, 1000, 1000, "Prometheus", "Prometheus", 1)

MatcherJsm == {jB1, jB2, jAlias, jExact, jB1Twin, jIo}

----------------------------------------------------------------------------
(* JSMService.calculate_content_similarity_score *)

\* a scorer that lets the exception of datetime.fromisoformat leave the method
ScoreRaisesOnBadTime(g, j) ==
    \/ g.alert_name = NoneStr
    \/ g.cluster = NoneStr
    \/ g.severity = NoneStr
    \/ g.summary = NoneStr
    \/ (g.started_at # TNone /\ j.createdAt # TNone /\ (g.started_at = TBad \/ j.createdAt = TBad))

\* .lower() on a None field of the Grafana alert raises AttributeError
ScoreRaises(g, j) ==
    \/ g.alert_name = NoneStr
    \/ g.cluster = NoneStr
    \/ g.severity = NoneStr
    \/ g.summary = NoneStr

NameScore(g, j) ==
    LET gn == Lower(g.alert_name)
        jn == Lower(extract_alert_name_from_jsm(j))
    IN  IF gn # <<>> /\ jn # <<>>
        THEN IF Contains(jn, gn) \/ Contains(gn, jn) THEN 40
             ELSE IF fuzzy_match(gn, jn) THEN 30
             ELSE 0
        ELSE 0

ClusterScore(g, j) ==
    LET gc == Lower(g.cluster)
        jc == extract_cluster_from_jsm(j)
    IN  IF gc # <<>> /\ Truthy(jc) /\ (Contains(Lower(jc), gc) \/ Contains(gc, Lower(jc)))
        THEN 25 ELSE 0

SeverityScore(g, j) ==
    LET gs == Lower(g.severity)
        js == extract_severity_from_jsm(j)
    IN  IF gs # <<>> /\ Truthy(js) /\ gs = Lower(js) THEN 15 ELSE 0

ContentScore(g, j) ==
    LET common_words == GetCommonWords(ToSet(Lower(g.summary)), MsgWords(j.message))
    IN  IF g.summary # <<>> /\ j.message # <<>> /\ Cardinality(common_words) > 2
        THEN Min(20, Cardinality(common_words) * 3)
        ELSE 0

TimeScore(g, j) ==
    IF g.started_at = TNone \/ j.createdAt = TNone THEN 0
    ELSE IF g.started_at = TBad \/ j.createdAt = TBad THEN 0
    ELSE LET time_diff == Abs(g.started_at - j.createdAt)
         IN  IF time_diff < 300 THEN 10
             ELSE IF time_diff < 900 THEN 5
             ELSE IF time_diff < 3600 THEN 2
             ELSE 0

SourceScore(g, j) ==
    IF j.source = "Grafana" \/ j.integrationName = "Grafana" THEN 15 ELSE 0

\* the score returned without min(score, 100)
score_uncapped(g, j) ==
    NameScore(g, j) + ClusterScore(g, j) + SeverityScore(g, j) + ContentScore(g, j)
      + TimeScore(g, j) + SourceScore(g, j)

calculate_content_similarity_score(g, j) ==
    Min(NameScore(g, j) + ClusterScore(g, j) + SeverityScore(g, j) + ContentScore(g, j)
          + TimeScore(g, j) + SourceScore(g, j),
        100)

----------------------------------------------------------------------------
(* JSMService.match_grafana_with_jsm *)

ALERT_MATCH_CONFIDENCE_THRESHOLD == 30

\* the match type with the lowest band forgotten
MatchTypeNoLowBand(score) ==
    IF score >= 90 THEN "high_confidence" ELSE "content_similarity"

MatchType(score) ==
    IF score >= 90 THEN "high_confidence"
    ELSE IF score >= 70 THEN "content_similarity"
    ELSE "low_confidence"

\* used_jsm_alerts.add(best_match['id']); the mutant forgets to mark the alert as used
MarkUsedNever(used, best) == used

MarkUsed(used, best) == used \cup {best.jsm_alert.id}

\* the inner loop with `score >= best_score`: a later alert of equal score replaces the
\* earlier one
RECURSIVE BestMatchLast(_, _, _, _, _)
BestMatchLast(g, jsms, used, i, best) ==
    IF i > Len(jsms) THEN best
    ELSE LET j == jsms[i]
         IN  IF j.id = MISSING THEN [best EXCEPT !.raised = TRUE]
             ELSE IF j.id \in used THEN BestMatchLast(g, jsms, used, i + 1, best)
             ELSE IF ScoreRaises(g, j) THEN [best EXCEPT !.raised = TRUE]
             ELSE LET score == calculate_content_similarity_score(g, j)
                  IN  IF score >= best.best_score /\ score > ALERT_MATCH_CONFIDENCE_THRESHOLD
                      THEN BestMatchLast(g, jsms, used, i + 1,
                                         [best EXCEPT !.best_score = score,
                                                      !.best_match = j,
                                                      !.best_match_type = MatchType(score)])
                      ELSE BestMatchLast(g, jsms, used, i + 1, best)

\* the inner loop over jsm_alerts for one Grafana alert, from position i on
RECURSIVE BestMatch(_, _, _, _, _)
BestMatch(g, jsms, used, i, best) ==
    IF i > Len(jsms) THEN best
    ELSE LET j == jsms[i]
         IN  IF j.id = MISSING THEN [best EXCEPT !.raised = TRUE]
             ELSE IF j.id \in used THEN BestMatch(g, jsms, used, i + 1, best)
             ELSE IF ScoreRaises(g, j) THEN [best EXCEPT !.raised = TRUE]
             ELSE LET score == calculate_content_similarity_score(g, j)
                  IN  IF score > best.best_score
                      THEN BestMatch(g, jsms, used, i + 1,
                                     [best EXCEPT !.best_score = score,
                                                  !.best_match = j,
                                                  !.best_match_type = MatchType(score)])
                      ELSE BestMatch(g, jsms, used, i + 1, best)

\* a match_info that takes best_score as its confidence also when nothing was bound: the
\* threshold instead of 0
MatchInfoBestScore(g, best) ==
    [grafana_alert |-> g, jsm_alert |-> best.best_match,
     match_type |-> best.best_match_type, match_confidence |-> best.best_score]

MatchInfo(g, best) ==
    IF best.best_match # NoJsm
    THEN [grafana_alert |-> g, jsm_alert |-> best.best_match,
          match_type |-> best.best_match_type, match_confidence |-> best.best_score]
    ELSE [grafana_alert |-> g, jsm_alert |-> NoJsm, match_type |-> "none",
          match_confidence |-> 0]

\* an outer loop that serves the Grafana alerts from the last to the first and returns
\* the results in input order
RECURSIVE MatchLoopLastFirst(_, _, _, _, _)
MatchLoopLastFirst(grafs, jsms, k, used, acc) ==
    IF k > Len(grafs) THEN [raised |-> FALSE, matched |-> acc]
    ELSE LET g == grafs[Len(grafs) + 1 - k]
             best == BestMatch(g, jsms, used, 1,
                               [best_match |-> NoJsm,
                                best_score |-> ALERT_MATCH_CONFIDENCE_THRESHOLD,
                                best_match_type |-> "none", raised |-> FALSE])
             info == MatchInfo(g, best)
         IN  IF best.raised THEN [raised |-> TRUE, matched |-> <<>>]
             ELSE MatchLoopLastFirst(grafs, jsms, k + 1,
                                     IF info.jsm_alert # NoJsm THEN MarkUsed(used, info) ELSE used,
                                     <<info>> \o acc)

\* the outer loop over grafana_alerts, from position k on
RECURSIVE MatchLoop(_, _, _, _, _)
MatchLoop(grafs, jsms, k, used, acc) ==
    IF k > Len(grafs) THEN [raised |-> FALSE, matched |-> acc]
    ELSE LET g == grafs[k]
             best == BestMatch(g, jsms, used, 1,
                               [best_match |-> NoJsm,
                                best_score |-> ALERT_MATCH_CONFIDENCE_THRESHOLD,
                                best_match_type |-> "none", raised |-> FALSE])
             info == MatchInfo(g, best)
         IN  IF best.raised THEN [raised |-> TRUE, matched |-> <<>>]
             ELSE MatchLoop(grafs, jsms, k + 1,
                            IF info.jsm_alert # NoJsm THEN MarkUsed(used, info) ELSE used,
                            Append(acc, info))

\* a used_jsm_alerts kept on the service object: a call starts with the ids the
\* previous call bound
used_jsm_alerts_on_instance(previous) ==
    {previous[k].jsm_alert.id : k \in {n \in 1..Len(previous) : previous[n].jsm_alert # NoJsm}}

\* used_jsm_alerts = set(): a local of the call, empty whatever the previous call of the
\* method returned
used_jsm_alerts(previous) == {}

\* a call of the method on a service object whose previous call returned `previous`
match_grafana_with_jsm_after(previous, grafs, jsms) ==
    MatchLoop(grafs, jsms, 1, used_jsm_alerts(previous), <<>>)

match_grafana_with_jsm(grafs, jsms) ==
    match_grafana_with_jsm_after(<<>>, grafs, jsms)

----------------------------------------------------------------------------
(* Rows of table alerts (models/alert.py) and the field updates of AlertService *)

gCpuStage ==
    GrafanaAlert("a1", <<"high", "cpu">>, <<"prod1">>, <<"critical">>,
                 <<"cpu", "above", "threshold", "on", "node">>, 5000,
                 Labels(<<"Stage", "eu">>, <<"prod">>))

jB1Closed == [jB1 EXCEPT !.status = "closed", !.updatedAt = 3000]

\* an alert whose labels are null
gNoLabels ==
    [gDisk EXCEPT !.labels = [null |-> TRUE, cluster |-> <<>>, env |-> <<>>]]

EngineGrafana == {gCpu, gCpuStage, gCpuUsage, gNoLabels}
\* b1 after somebody acknowledged it in JSM
jB1Acked ==
    [jB1 EXCEPT !.status = "acked", !.acknowledged = TRUE, !.owner = "carol", !.updatedAt = 3000]

EngineJsm == {jB1, jB1Closed, jB1Acked, jB2}

EmptyStore == [id \in {} |-> NULL]

Put(store, id, row) ==
    [k \in (DOMAIN store) \cup {id} |-> IF k = id THEN row ELSE store[k]]

\* Alert(**grafana_data, grafana_status="active") with the column defaults
NewAlert(g) ==
    [grafana |-> g, grafana_status |-> "active",
     jsm_alert_id |-> NULL, jsm_tiny_id |-> NULL, jsm_status |-> NULL,
     jsm_acknowledged |-> FALSE, jsm_owner |-> NULL, jsm_priority |-> NULL,
     jsm_alias |-> <<>>, jsm_integration_name |-> NULL, jsm_source |-> NULL,
     jsm_count |-> 1, jsm_tags |-> <<>>,
     jsm_created_at |-> TNone, jsm_updated_at |-> TNone,
     match_type |-> NULL, match_confidence |-> 0,
     acknowledged_by |-> NULL, acknowledged_at |-> TNone,
     resolved_by |-> NULL, resolved_at |-> TNone,
     jira_status |-> "open", jira_assignee |-> NULL]

\* AlertService._sanitize_alert_data: None becomes "" for summary and labels
sanitize_alert_data(g) ==
    [g EXCEPT !.summary = IF @ = NoneStr THEN <<>> ELSE @,
              !.labels = IF @.null THEN [null |-> FALSE, cluster |-> <<>>, env |-> <<>>]
                         ELSE @]

\* _is_non_prod_alert without .lower(): 'stage' in cluster
is_non_prod_alert_case_sensitive(g) ==
    \/ Contains(g.labels.cluster, <<"stage">>)
    \/ g.labels.env = <<"devo", "stage", "eu">>

\* AlertService._is_non_prod_alert; labels.get on None raises AttributeError
NonProdRaises(g) == g.labels.null

is_non_prod_alert(g) ==
    \/ Contains(Lower(g.labels.cluster), <<"stage">>)
    \/ g.labels.env = <<"devo", "stage", "eu">>

\* AlertService._map_jsm_to_jira_status
map_jsm_to_jira_status(jsm_status) ==
    CASE jsm_status = "open" -> "open"
      [] jsm_status = "acked" -> "acknowledged"
      [] jsm_status = "closed" -> "resolved"
      [] OTHER -> "open"

\* JSMService.get_alert_status_info: .get('id') of a dict without the key is None
StatusId(j) == IF j.id = MISSING THEN NULL ELSE j.id

\* AlertService._update_jsm_fields
update_jsm_fields(alert, j, match_type, match_confidence) ==
    LET mirrored ==
            [alert EXCEPT !.jsm_alert_id = StatusId(j),
                          !.jsm_tiny_id = j.tinyId,
                          !.jsm_status = j.status,
                          !.jsm_acknowledged = j.acknowledged,
                          !.jsm_owner = j.owner,
                          !.jsm_priority = j.priority,
                          !.jsm_alias = j.alias,
                          !.jsm_integration_name = j.integrationName,
                          !.jsm_source = j.source,
                          !.jsm_count = j.count,
                          !.jsm_tags = j.tags,
                          !.match_type = match_type,
                          !.match_confidence = match_confidence]
        \* the three timestamps are parsed in one try block: a malformed created_at
        \* leaves updated_at as it was
        stamped ==
            [mirrored EXCEPT
                !.jsm_created_at = IF j.createdAt >= 0 THEN j.createdAt ELSE @,
                !.jsm_updated_at = IF j.createdAt # TBad /\ j.updatedAt >= 0
                                   THEN j.updatedAt ELSE @]
        legacy ==
            [stamped EXCEPT !.jira_status = map_jsm_to_jira_status(j.status),
                            !.jira_assignee = j.owner]
    IN  IF j.acknowledged /\ legacy.acknowledged_by \in {NULL, ""}
        THEN [legacy EXCEPT
                 !.acknowledged_by = IF j.owner \in {NULL, ""} THEN "JSM User" ELSE j.owner,
                 !.acknowledged_at = IF legacy.jsm_updated_at # TNone
                                     THEN legacy.jsm_updated_at ELSE TNow]
        ELSE legacy

\* _update_existing_alert with an else branch that resets the match but keeps the
\* JSM alert id
update_existing_alert_keeps_id(alert, g, info) ==
    LET copied == [alert EXCEPT !.grafana_status = "active", !.grafana = g]
    IN  IF info.jsm_alert # NoJsm
        THEN update_jsm_fields(copied, info.jsm_alert, info.match_type, info.match_confidence)
        ELSE [copied EXCEPT !.match_type = "none", !.match_confidence = 0]

\* _update_existing_alert without `alert.grafana_status = "active"`: a resolved row that
\* is fetched again stays resolved
update_existing_alert_keeps_status(alert, g, info) ==
    LET copied == [alert EXCEPT !.grafana = g]
    IN  IF info.jsm_alert # NoJsm
        THEN update_jsm_fields(copied, info.jsm_alert, info.match_type, info.match_confidence)
        ELSE [copied EXCEPT !.jsm_alert_id = NULL, !.jsm_status = NULL,
                            !.match_type = "none", !.match_confidence = 0]

\* AlertService._update_existing_alert
update_existing_alert(alert, g, info) ==
    LET copied == [alert EXCEPT !.grafana_status = "active", !.grafana = g]
    IN  IF info.jsm_alert # NoJsm
        THEN update_jsm_fields(copied, info.jsm_alert, info.match_type, info.match_confidence)
        ELSE [copied EXCEPT !.jsm_alert_id = NULL, !.jsm_status = NULL,
                            !.match_type = "none", !.match_confidence = 0]

\* _create_new_alert without its else branch: an unmatched new row keeps match_type NULL
create_new_alert_no_else(g, info) ==
    IF info.jsm_alert # NoJsm
    THEN update_jsm_fields(NewAlert(g), info.jsm_alert, info.match_type, info.match_confidence)
    ELSE NewAlert(g)

\* AlertService._create_new_alert: the row added to the session
create_new_alert(g, info) ==
    IF info.jsm_alert # NoJsm
    THEN update_jsm_fields(NewAlert(g), info.jsm_alert, info.match_type, info.match_confidence)
    ELSE [NewAlert(g) EXCEPT !.match_type = "none", !.match_confidence = 0]

\* the loop of sync_alerts over matched_alerts, from position i on
RECURSIVE ProcessMatched(_, _, _, _)
ProcessMatched(matched, i, store, active_ids) ==
    IF i > Len(matched) THEN [store |-> store, active_ids |-> active_ids]
    ELSE LET g == sanitize_alert_data(matched[i].grafana_alert)
             alert_id == g.alert_id
         IN  IF alert_id \in {NULL, ""}
             THEN ProcessMatched(matched, i + 1, store, active_ids)
             ELSE ProcessMatched(
                      matched, i + 1,
                      Put(store, alert_id,
                          IF alert_id \in DOMAIN store
                          THEN update_existing_alert(store[alert_id], g, matched[i])
                          ELSE create_new_alert(g, matched[i])),
                      active_ids \cup {alert_id})

\* a selection without the filter on grafana_status: every row that is not among the
\* fetched alerts, resolved ones included
ResolvedAlertsAnyStatus(store, active_ids) ==
    {id \in DOMAIN store : id \notin active_ids}

\* the rows _mark_resolved_alerts selects
ResolvedAlerts(store, active_ids) ==
    {id \in DOMAIN store : id \notin active_ids /\ store[id].grafana_status = "active"}

\* the selected rows close_jsm_alert is called for
NeedsClose(alert) == alert.jsm_alert_id # NULL /\ alert.jsm_status # "closed"

CloseOutcomes == {"closed", "false", "raises"}

\* _mark_resolved_alerts with the status transition placed after a successful close
mark_resolved_after_close(alert, outcome) ==
    IF ~NeedsClose(alert) THEN [alert EXCEPT !.grafana_status = "resolved"]
    ELSE IF outcome = "closed"
         THEN [alert EXCEPT !.grafana_status = "resolved", !.jsm_status = "closed"]
         ELSE alert

\* AlertService._mark_resolved_alerts on one selected row; outcome is what
\* close_jsm_alert did: returned True ("closed"), returned False, or raised
mark_resolved(alert, outcome) ==
    LET resolved == [alert EXCEPT !.grafana_status = "resolved"]
    IN  IF NeedsClose(alert) /\ outcome = "closed"
        THEN [resolved EXCEPT
                 !.jsm_status = "closed",
                 !.resolved_by = IF @ \in {NULL, ""} THEN "Auto-resolved (Grafana)" ELSE @,
                 !.resolved_at = IF resolved.resolved_by \in {NULL, ""} THEN TNow ELSE @]
        ELSE resolved

\* _mark_resolved_alerts without the try around close_jsm_alert: an exception of the
\* call reaches the outer except and the rows processed by then are lost to the loop
mark_resolved_alerts_no_inner_try(store, active_ids, outcomes) ==
    IF \E id \in DOMAIN outcomes : outcomes[id] = "raises" THEN store
    ELSE [id \in DOMAIN store |->
            IF id \in ResolvedAlerts(store, active_ids)
            THEN mark_resolved(store[id],
                               IF id \in DOMAIN outcomes THEN outcomes[id] ELSE "false")
            ELSE store[id]]

mark_resolved_alerts(store, active_ids, outcomes) ==
    [id \in DOMAIN store |->
        IF id \in ResolvedAlerts(store, active_ids)
        THEN mark_resolved(store[id], IF id \in DOMAIN outcomes THEN outcomes[id] ELSE "false")
        ELSE store[id]]

CloseCalls(store, active_ids) ==
    {store[id].jsm_alert_id : id \in {k \in ResolvedAlerts(store, active_ids) : NeedsClose(store[k])}}

\* jsm_alerts_by_id = {alert['id']: alert ...}: the last alert of an id wins
ById(jsm, id) ==
    LET P == {i \in 1..Len(jsm) : jsm[i].id = id}
    IN  jsm[CHOOSE i \in P : \A k \in P : k <= i]

\* an orphan refresh that drops the match of a row that is no longer active instead of
\* passing the row's own match_type and match_confidence
update_orphaned_jsm_alerts_rematch(store, jsm) ==
    [id \in DOMAIN store |->
        IF /\ store[id].jsm_alert_id # NULL
           /\ \E i \in 1..Len(jsm) : jsm[i].id = store[id].jsm_alert_id
        THEN IF store[id].grafana_status = "active"
             THEN update_jsm_fields(store[id], ById(jsm, store[id].jsm_alert_id),
                                    store[id].match_type, store[id].match_confidence)
             ELSE update_jsm_fields(store[id], ById(jsm, store[id].jsm_alert_id), "none", 0)
        ELSE store[id]]

\* an orphan refresh that also sets a row whose JSM alert is open back to active
update_orphaned_jsm_alerts_reactivate(store, jsm) ==
    [id \in DOMAIN store |->
        IF /\ store[id].jsm_alert_id # NULL
           /\ \E i \in 1..Len(jsm) : jsm[i].id = store[id].jsm_alert_id
        THEN LET j == ById(jsm, store[id].jsm_alert_id)
                 row == update_jsm_fields(store[id], j, store[id].match_type,
                                          store[id].match_confidence)
             IN  IF j.status = "open" THEN [row EXCEPT !.grafana_status = "active"] ELSE row
        ELSE store[id]]

\* AlertService._update_orphaned_jsm_alerts; a JSM alert without 'id' raises KeyError,
\* which the method logs: no row is updated
update_orphaned_jsm_alerts(store, jsm) ==
    IF \E i \in 1..Len(jsm) : jsm[i].id = MISSING THEN store
    ELSE [id \in DOMAIN store |->
            IF /\ store[id].jsm_alert_id # NULL
               /\ \E i \in 1..Len(jsm) : jsm[i].id = store[id].jsm_alert_id
            THEN update_jsm_fields(store[id], ById(jsm, store[id].jsm_alert_id),
                                   store[id].match_type, store[id].match_confidence)
            ELSE store[id]]

----------------------------------------------------------------------------
(* SchedulerService (scheduler_service.py) on APScheduler's BackgroundScheduler *)

\* the persisted job definitions; main.py creates "alert-sync"
CronConfig(name, expr, enabled) ==
    [job_name |-> name, cron_expression |-> expr, is_enabled |-> enabled]

CronConfigs ==
    {CronConfig("alert-sync", "*/5 * * * *", TRUE),
     CronConfig("report-sync", "*/10 * * * *", TRUE),
     CronConfig("paused-sync", "0 * * * *", FALSE)}

JobNames == {c.job_name : c \in CronConfigs}

Expressions == {"*/5 * * * *", "*/10 * * * *"}

\* scheduler.add_job(...) is called without max_instances: APScheduler's default
max_instances == 1

Zero == [j \in JobNames |-> 0]

SchedOff ==
    /\ tables_ready = FALSE /\ jobs_loaded = FALSE
    /\ timers = [j \in JobNames |-> NULL]
    /\ instances = Zero /\ due = Zero /\ started = Zero /\ skipped = Zero
    /\ finished = Zero /\ bodies = Zero

\* Base.metadata.create_all in main.py's startup
CreateTables ==
    /\ ~tables_ready
    /\ tables_ready' = TRUE
    /\ UNCHANGED <<jobs_loaded, timers, instances, due, started, skipped, finished, bodies,
                   mvars, evars>>

\* SchedulerService._add_job: add_job(id="job_<name>", replace_existing=True)
add_job(t, config) == [t EXCEPT ![config.job_name] = config.cron_expression]

\* SchedulerService._load_jobs: one _add_job per enabled CronConfig
load_jobs(t) ==
    [j \in JobNames |->
        IF \E c \in CronConfigs : c.job_name = j /\ c.is_enabled
        THEN add_job(t, CHOOSE c \in CronConfigs : c.job_name = j /\ c.is_enabled)[j]
        ELSE t[j]]

\* an ensure_jobs_loaded that sets _jobs_loaded before it tries to load
EnsureJobsLoadedSetsFlag ==
    /\ ~jobs_loaded
    /\ jobs_loaded' = TRUE
    /\ timers' = IF tables_ready THEN load_jobs(timers) ELSE timers
    /\ UNCHANGED <<tables_ready, instances, due, started, skipped, finished, bodies,
                   mvars, evars>>

\* SchedulerService.ensure_jobs_loaded: the query raises ProgrammingError while the
\* tables are missing; the exception is logged and _jobs_loaded stays False
EnsureJobsLoaded ==
    /\ ~jobs_loaded
    /\ IF tables_ready
       THEN /\ timers' = load_jobs(timers)
            /\ jobs_loaded' = TRUE
            /\ UNCHANGED tables_ready
       ELSE UNCHANGED <<timers, jobs_loaded, tables_ready>>
    /\ UNCHANGED <<instances, due, started, skipped, finished, bodies,
                   mvars, evars>>

\* an update_job made of remove and add with a trigger that is due at once
UpdateJobFires ==
    /\ \E j \in JobNames, e \in Expressions :
           /\ timers[j] # NULL
           /\ timers[j] # e
           /\ due[j] < MaxFirings
           /\ timers' = [timers EXCEPT ![j] = e]
           /\ due' = [due EXCEPT ![j] = @ + 1]
           /\ started' = [started EXCEPT ![j] = @ + 1]
           /\ instances' = [instances EXCEPT ![j] = @ + 1]
    /\ UNCHANGED <<tables_ready, jobs_loaded, skipped, finished, bodies, mvars, evars>>

\* SchedulerService.update_job: modify_job raises JobLookupError for an unknown job,
\* which is logged
UpdateJob ==
    /\ \E j \in JobNames, e \in Expressions :
           /\ timers[j] # NULL
           /\ timers[j] # e
           /\ timers' = [timers EXCEPT ![j] = e]
    /\ UNCHANGED <<tables_ready, jobs_loaded, instances, due, started, skipped, finished,
                   bodies, mvars, evars>>

\* SchedulerService.remove_job
RemoveJob ==
    /\ \E j \in JobNames :
           /\ timers[j] # NULL
           /\ timers' = [timers EXCEPT ![j] = NULL]
    /\ UNCHANGED <<tables_ready, jobs_loaded, instances, due, started, skipped, finished,
                   bodies, mvars, evars>>

\* the executor refuses a job that already runs max_instances instances; the mutant
\* submits whatever is due
CanSubmitAlways(j) == TRUE

CanSubmit(j) == instances[j] < max_instances

\* a timer of job j becomes due: the run is submitted to the executor, or skipped
\* ("maximum number of running instances reached") and dropped
TimerDue ==
    /\ \E j \in JobNames :
           /\ timers[j] # NULL
           /\ due[j] < MaxFirings
           /\ due' = [due EXCEPT ![j] = @ + 1]
           /\ IF CanSubmit(j)
              THEN /\ instances' = [instances EXCEPT ![j] = @ + 1]
                   /\ started' = [started EXCEPT ![j] = @ + 1]
                   /\ UNCHANGED skipped
              ELSE /\ skipped' = [skipped EXCEPT ![j] = @ + 1]
                   /\ UNCHANGED <<instances, started>>
    /\ UNCHANGED <<tables_ready, jobs_loaded, timers, finished, bodies,
                   mvars, evars>>

\* _sync_alerts_job is declared async def
JobFuncIsCoroutine == TRUE

\* BackgroundScheduler() runs jobs in its default thread pool executor, which calls
\* job.func(*args) and does not await what it returns
ExecutorAwaits == FALSE

\* calling the job function runs its body, unless it only builds a coroutine object
BodyRuns == ~JobFuncIsCoroutine \/ ExecutorAwaits

\* the executor thread calls the job function and the call returns
RunJob ==
    /\ \E j \in JobNames :
           /\ instances[j] > 0
           /\ instances' = [instances EXCEPT ![j] = @ - 1]
           /\ finished' = [finished EXCEPT ![j] = @ + 1]
           /\ bodies' = [bodies EXCEPT ![j] = IF BodyRuns THEN @ + 1 ELSE @]
    /\ UNCHANGED <<tables_ready, jobs_loaded, timers, due, started, skipped, mvars, evars>>

SchedNext ==
    \/ CreateTables
    \/ EnsureJobsLoaded
    \/ UpdateJob
    \/ RemoveJob
    \/ TimerDue
    \/ RunJob

----------------------------------------------------------------------------
(* AlertService.sync_alerts, one step at a time *)

\* db.flush() in _create_new_alert sends the INSERT inside the open transaction: what
\* other sessions see stays the committed rows.  The mutant commits on flush.
VisibleOnFlush(committed, session) == session

Visible(committed, session) == committed

NoFetch == [a |-> "none", b |-> "none"]

LocalsIdle ==
    /\ steps = <<>>
    /\ grafana_alerts = <<>>
    /\ jsm_alerts = <<>>
    /\ fetch_out = NoFetch
    /\ filtered_grafana_alerts = <<>>
    /\ matched_alerts = <<>>
    /\ active_grafana_alert_ids = {}
    /\ close_out = <<>>
    /\ close_calls = {}
    /\ flush_failed = 0
    /\ raised = FALSE

ResetLocals ==
    /\ steps' = <<>>
    /\ grafana_alerts' = <<>>
    /\ jsm_alerts' = <<>>
    /\ fetch_out' = NoFetch
    /\ filtered_grafana_alerts' = <<>>
    /\ matched_alerts' = <<>>
    /\ active_grafana_alert_ids' = {}
    /\ close_out' = <<>>
    /\ close_calls' = {}
    /\ flush_failed' = 0
    /\ raised' = FALSE

locals == <<steps, grafana_alerts, jsm_alerts, fetch_out, filtered_grafana_alerts,
            matched_alerts, active_grafana_alert_ids, close_out, close_calls,
            flush_failed, raised>>

NoRequest == [op |-> "none", ids |-> {}, user |-> NULL, result |-> FALSE]

EngineOff ==
    /\ db = EmptyStore /\ sess = EmptyStore /\ db_before = EmptyStore
    /\ pc = "off" /\ passes = 0 /\ manual = 0 /\ request = NoRequest
    /\ LocalsIdle

MatcherOff == gl = <<>> /\ jl = <<>> /\ mres = <<>> /\ mpc = "off"

Init ==
    /\ db = EmptyStore /\ sess = EmptyStore /\ db_before = EmptyStore
    /\ pc = "idle" /\ passes = 0 /\ manual = 0 /\ request = NoRequest
    /\ LocalsIdle
    /\ MatcherOff
    /\ SchedOff

\* a caller awaits sync_alerts(db) with a fresh Session
StartPass ==
    /\ pc = "idle"
    /\ passes < MaxPasses
    /\ passes' = passes + 1
    /\ pc' = "FETCH_A"
    /\ sess' = db
    /\ db_before' = db
    /\ request' = NoRequest
    /\ UNCHANGED <<db, manual, locals, mvars, svars>>

\* except Exception: db.rollback(); raise
Abort(step) ==
    /\ pc' = "ABORTED"
    /\ steps' = Append(steps, step)
    /\ sess' = db
    /\ raised' = TRUE
    /\ UNCHANGED <<db, db_before, passes, manual, request, mvars, svars>>

Advance(step, next) ==
    /\ pc' = next
    /\ steps' = Append(steps, step)
    /\ UNCHANGED <<db_before, passes, manual, request, raised, mvars, svars>>

\* grafana_service.get_active_alerts() returns the active alerts
FetchA ==
    /\ pc = "FETCH_A"
    /\ \E l \in SeqsUpTo(EngineGrafana, MaxFetchA) : grafana_alerts' = l
    /\ fetch_out' = [fetch_out EXCEPT !.a = "ok"]
    /\ Advance("FETCH_A", "FETCH_B")
    /\ UNCHANGED <<db, sess, jsm_alerts, filtered_grafana_alerts, matched_alerts,
                   active_grafana_alert_ids, close_out, close_calls, flush_failed>>

\* grafana_service.get_active_alerts() fails with FetchError
FetchAFails ==
    /\ pc = "FETCH_A"
    /\ fetch_out' = [fetch_out EXCEPT !.a = "error"]
    /\ Abort("FETCH_A")
    /\ UNCHANGED <<grafana_alerts, jsm_alerts, filtered_grafana_alerts, matched_alerts,
                   active_grafana_alert_ids, close_out, close_calls, flush_failed>>

\* get_jsm_alerts returns data['values']
FetchB ==
    /\ pc = "FETCH_B"
    /\ \E l \in {x \in SeqsUpTo(EngineJsm, MaxFetchB) : UniqueIds(x)} : jsm_alerts' = l
    /\ fetch_out' = [fetch_out EXCEPT !.b = "ok"]
    /\ Advance("FETCH_B", "FILTER")
    /\ UNCHANGED <<db, sess, grafana_alerts, filtered_grafana_alerts, matched_alerts,
                   active_grafana_alert_ids, close_out, close_calls, flush_failed>>

\* get_jsm_alerts: no cloud id, or requests.RequestException (network, auth, HTTP
\* status): logged, and [] is returned
FetchBFails ==
    /\ pc = "FETCH_B"
    /\ \E o \in {"no_cloud_id", "request_exception"} :
           fetch_out' = [fetch_out EXCEPT !.b = o]
    /\ jsm_alerts' = <<>>
    /\ Advance("FETCH_B", "FILTER")
    /\ UNCHANGED <<db, sess, grafana_alerts, filtered_grafana_alerts, matched_alerts,
                   active_grafana_alert_ids, close_out, close_calls, flush_failed>>

\* get_jsm_alerts: a body that is not a JSON object makes data.get raise
\* AttributeError, which is no RequestException and leaves the method
FetchBRaises ==
    /\ pc = "FETCH_B"
    /\ fetch_out' = [fetch_out EXCEPT !.b = "malformed"]
    /\ Abort("FETCH_B")
    /\ UNCHANGED <<grafana_alerts, jsm_alerts, filtered_grafana_alerts, matched_alerts,
                   active_grafana_alert_ids, close_out, close_calls, flush_failed>>

\* a remote call that never returns: requests.get and requests.post are called without
\* a timeout, so the pass stays inside the call
Hang ==
    /\ pc' = "HUNG"
    /\ UNCHANGED <<db, sess, db_before, steps, passes, manual, request, raised, mvars, svars>>

\* get_jsm_alerts: the upstream accepts the connection and never answers
FetchBHangs ==
    /\ pc = "FETCH_B"
    /\ fetch_out' = [fetch_out EXCEPT !.b = "hung"]
    /\ Hang
    /\ UNCHANGED <<grafana_alerts, jsm_alerts, filtered_grafana_alerts, matched_alerts,
                   active_grafana_alert_ids, close_out, close_calls, flush_failed>>

KeepProd(g) == ~is_non_prod_alert(g)

FilterAlerts(alerts) == SelectSeq(alerts, KeepProd)

Filter ==
    /\ pc = "FILTER"
    /\ IF \E i \in 1..Len(grafana_alerts) : NonProdRaises(grafana_alerts[i])
       THEN /\ Abort("FILTER")
            /\ UNCHANGED filtered_grafana_alerts
       ELSE /\ filtered_grafana_alerts' = FilterAlerts(grafana_alerts)
            /\ Advance("FILTER", "MATCH")
            /\ UNCHANGED <<db, sess>>
    /\ UNCHANGED <<grafana_alerts, jsm_alerts, fetch_out, matched_alerts,
                   active_grafana_alert_ids, close_out, close_calls, flush_failed>>

\* the statements of sync_alerts, in the order they are written
StepOrder ==
    <<"FETCH_A", "FETCH_B", "FILTER", "MATCH", "MERGE", "RESOLVE_STALE", "REFRESH_ORPHANS",
      "COMMIT">>

\* a matcher that writes each row as soon as its MatchResult is decided
MatchInterleaved ==
    /\ pc = "MATCH"
    /\ LET r == match_grafana_with_jsm(filtered_grafana_alerts, jsm_alerts)
       IN  /\ matched_alerts' = r.matched
           /\ sess' = ProcessMatched(r.matched, 1, sess, {}).store
           /\ db' = db
    /\ Advance("MATCH", "MERGE")
    /\ UNCHANGED <<grafana_alerts, jsm_alerts, fetch_out, filtered_grafana_alerts,
                   active_grafana_alert_ids, close_out, close_calls, flush_failed>>

Match ==
    /\ pc = "MATCH"
    /\ LET r == match_grafana_with_jsm(filtered_grafana_alerts, jsm_alerts)
       IN  IF r.raised
           THEN /\ Abort("MATCH")
                /\ UNCHANGED matched_alerts
           ELSE /\ matched_alerts' = r.matched
                /\ Advance("MATCH", "MERGE")
                /\ UNCHANGED <<db, sess>>
    /\ UNCHANGED <<grafana_alerts, jsm_alerts, fetch_out, filtered_grafana_alerts,
                   active_grafana_alert_ids, close_out, close_calls, flush_failed>>

\* the create positions of a loop whose query does not see the rows added earlier in the
\* same pass
CreatePositionsNoFlush(matched, store) ==
    {k \in 1..Len(matched) :
        LET alert_id == sanitize_alert_data(matched[k].grafana_alert).alert_id
        IN  alert_id \notin {NULL, ""} /\ alert_id \notin DOMAIN store}

\* the positions of matched_alerts at which the loop calls _create_new_alert
CreatePositions(matched, store) ==
    {k \in 1..Len(matched) :
        LET alert_id == sanitize_alert_data(matched[k].grafana_alert).alert_id
        IN  /\ alert_id \notin {NULL, ""}
            /\ alert_id \notin DOMAIN ProcessMatched(SubSeq(matched, 1, k - 1), 1, store, {}).store}

\* db.flush() raised in _create_new_alert, which logs the exception and returns: the
\* Session has rolled its transaction back and refuses every further query, flush and
\* commit until db.rollback() is called
SessionFailed == flush_failed # 0

\* the loop over matched_alerts.  Either every flush succeeds (k = 0), or the flush of
\* the create at position k raises: what was flushed before is rolled back, and for every
\* later record active_grafana_alert_ids.add runs, db.query raises and the record is
\* skipped by the except of the loop
Merge ==
    /\ pc = "MERGE"
    /\ \E k \in {0} \cup CreatePositions(matched_alerts, sess) :
          LET r == ProcessMatched(matched_alerts, 1, sess, {})
              flushed == IF k = 0 THEN r.store ELSE db
          IN  /\ flush_failed' = k
              /\ sess' = flushed
              /\ active_grafana_alert_ids' = r.active_ids
              /\ db' = Visible(db, flushed)
    /\ Advance("MERGE", "RESOLVE_STALE")
    /\ UNCHANGED <<grafana_alerts, jsm_alerts, fetch_out, filtered_grafana_alerts,
                   matched_alerts, close_out, close_calls>>

\* _mark_resolved_alerts: on a failed Session its query raises inside the try of the
\* method, which logs and returns
ResolveStale ==
    /\ pc = "RESOLVE_STALE"
    /\ IF SessionFailed
       THEN /\ close_out' = <<>>
            /\ close_calls' = {}
            /\ sess' = sess
       ELSE LET closing == {id \in ResolvedAlerts(sess, active_grafana_alert_ids) :
                               NeedsClose(sess[id])}
            IN  \E outcomes \in [closing -> CloseOutcomes] :
                    /\ close_out' = outcomes
                    /\ sess' = mark_resolved_alerts(sess, active_grafana_alert_ids, outcomes)
                    /\ close_calls' = CloseCalls(sess, active_grafana_alert_ids)
    /\ Advance("RESOLVE_STALE", "REFRESH_ORPHANS")
    /\ UNCHANGED <<db, grafana_alerts, jsm_alerts, fetch_out, filtered_grafana_alerts,
                   matched_alerts, active_grafana_alert_ids, flush_failed>>

\* _mark_resolved_alerts: close_jsm_alert never returns for the stale row id
CloseHangs ==
    /\ pc = "RESOLVE_STALE"
    /\ ~SessionFailed
    /\ \E id \in ResolvedAlerts(sess, active_grafana_alert_ids) :
           /\ NeedsClose(sess[id])
           /\ close_calls' = {sess[id].jsm_alert_id}
    /\ Hang
    /\ UNCHANGED <<grafana_alerts, jsm_alerts, fetch_out, filtered_grafana_alerts,
                   matched_alerts, active_grafana_alert_ids, close_out, flush_failed>>

\* _update_orphaned_jsm_alerts: likewise logs and returns on a failed Session
RefreshOrphans ==
    /\ pc = "REFRESH_ORPHANS"
    /\ sess' = IF SessionFailed THEN sess ELSE update_orphaned_jsm_alerts(sess, jsm_alerts)
    /\ Advance("REFRESH_ORPHANS", "COMMIT")
    /\ UNCHANGED <<db, grafana_alerts, jsm_alerts, fetch_out, filtered_grafana_alerts,
                   matched_alerts, active_grafana_alert_ids, close_out, close_calls, flush_failed>>

\* what the flush of db.commit() writes: an INSERT for each row the pass added, and for
\* a row the pass loaded an UPDATE of the columns whose value the pass changed; the
\* other columns of the row keep what is committed
flush_rows(committed, loaded, session) ==
    [id \in DOMAIN session |->
        IF id \notin DOMAIN loaded \/ committed[id] = loaded[id] THEN session[id]
        ELSE [f \in DOMAIN session[id] |->
                 IF session[id][f] # loaded[id][f] THEN session[id][f] ELSE committed[id][f]]]

\* db.commit() succeeds; on a failed Session it can only raise
Commit ==
    /\ pc = "COMMIT"
    /\ ~SessionFailed
    /\ db' = flush_rows(db, db_before, sess)
    /\ Advance("COMMIT", "COMMITTED")
    /\ UNCHANGED <<sess, grafana_alerts, jsm_alerts, fetch_out, filtered_grafana_alerts,
                   matched_alerts, active_grafana_alert_ids, close_out, close_calls, flush_failed>>

\* db.commit() raises
CommitFails ==
    /\ pc = "COMMIT"
    /\ Abort("COMMIT")
    /\ UNCHANGED <<grafana_alerts, jsm_alerts, fetch_out, filtered_grafana_alerts,
                   matched_alerts, active_grafana_alert_ids, close_out, close_calls, flush_failed>>

\* sync_alerts has returned or raised; the caller closes the Session
Return ==
    /\ pc \in {"COMMITTED", "ABORTED"}
    /\ pc' = "idle"
    /\ sess' = db
    /\ db_before' = db
    /\ ResetLocals
    /\ UNCHANGED <<db, passes, manual, request, mvars, svars>>

Next ==
    \/ StartPass
    \/ FetchA \/ FetchAFails
    \/ FetchB \/ FetchBFails \/ FetchBRaises \/ FetchBHangs
    \/ Filter
    \/ Match
    \/ Merge
    \/ ResolveStale \/ CloseHangs
    \/ RefreshOrphans
    \/ Commit \/ CommitFails
    \/ Return

Spec == Init /\ [][Next]_vars

\* the thread that runs a pass keeps running: a step of the pass that can be taken is
\* taken
LiveSpec == Init /\ [][Next]_vars /\ WF_vars(Next)

\* SchedulerService.__init__: the scheduler is started, no job is loaded
SchedInit ==
    /\ tables_ready = FALSE /\ jobs_loaded = FALSE
    /\ timers = [j \in JobNames |-> NULL]
    /\ instances = Zero /\ due = Zero /\ started = Zero /\ skipped = Zero
    /\ finished = Zero /\ bodies = Zero
    /\ EngineOff
    /\ MatcherOff

SchedSpec == SchedInit /\ [][SchedNext]_vars

\* the whole pass on a Store as one function: what a committed pass leaves in db
sync_store(store, fetched_a, fetched_b, outcomes) ==
    LET r == match_grafana_with_jsm(FilterAlerts(fetched_a), fetched_b)
        merged == ProcessMatched(r.matched, 1, store, {})
        resolved == mark_resolved_alerts(merged.store, merged.active_ids, outcomes)
    IN  update_orphaned_jsm_alerts(resolved, fetched_b)

----------------------------------------------------------------------------
(* AlertService.acknowledge_alerts and resolve_alerts, called between passes *)

\* the acknowledged_by / resolved_by argument; "System User" is the default
ManualUsers == {"System User", "alice"}

\* acknowledge_jsm_alert returned True, returned False, or raised
AckOutcomes == {"acked", "false", "raises"}

HasJsm(alert) == alert.jsm_alert_id \notin {NULL, ""}

\* the body of the loop of acknowledge_alerts for one row: an exception of the remote
\* call skips the row (continue)
acknowledge_one(alert, outcome, user) ==
    IF HasJsm(alert) /\ outcome = "raises" THEN alert
    ELSE LET remote == IF HasJsm(alert) /\ outcome = "acked"
                       THEN [alert EXCEPT !.jsm_status = "acked", !.jsm_acknowledged = TRUE]
                       ELSE alert
         IN  [remote EXCEPT !.acknowledged_by = user,
                            !.acknowledged_at = TNow,
                            !.jira_status = "acknowledged"]

\* the body of the loop of resolve_alerts for one row
resolve_one(alert, outcome, user) ==
    IF HasJsm(alert) /\ outcome = "raises" THEN alert
    ELSE LET remote == IF HasJsm(alert) /\ outcome = "closed"
                       THEN [alert EXCEPT !.jsm_status = "closed"]
                       ELSE alert
         IN  [remote EXCEPT !.grafana_status = "resolved",
                            !.resolved_by = user,
                            !.resolved_at = TNow,
                            !.jira_status = "resolved"]

Outcome(outcomes, id) == IF id \in DOMAIN outcomes THEN outcomes[id] ELSE "false"

\* AlertService.acknowledge_alerts on the rows ids, committed; a commit that raises
\* is rolled back and leaves the rows as they were
AcknowledgeAlerts ==
    /\ pc = "idle"
    /\ manual < MaxManual
    /\ \E ids \in (SUBSET DOMAIN db) \ {{}}, user \in ManualUsers, committed \in BOOLEAN :
         \E outcomes \in [{id \in ids : HasJsm(db[id])} -> AckOutcomes] :
            /\ db' = IF committed
                     THEN [id \in DOMAIN db |->
                             IF id \in ids
                             THEN acknowledge_one(db[id], Outcome(outcomes, id), user)
                             ELSE db[id]]
                     ELSE db
            /\ request' = [op |-> "acknowledge", ids |-> ids, user |-> user, result |-> committed]
    /\ sess' = db'
    /\ db_before' = db'
    /\ manual' = manual + 1
    /\ UNCHANGED <<pc, passes, locals, mvars, svars>>

\* AlertService.resolve_alerts on the rows ids, committed
ResolveAlerts ==
    /\ pc = "idle"
    /\ manual < MaxManual
    /\ \E ids \in (SUBSET DOMAIN db) \ {{}}, user \in ManualUsers, committed \in BOOLEAN :
         \E outcomes \in [{id \in ids : HasJsm(db[id])} -> CloseOutcomes] :
            /\ db' = IF committed
                     THEN [id \in DOMAIN db |->
                             IF id \in ids
                             THEN resolve_one(db[id], Outcome(outcomes, id), user)
                             ELSE db[id]]
                     ELSE db
            /\ request' = [op |-> "resolve", ids |-> ids, user |-> user, result |-> committed]
    /\ sess' = db'
    /\ db_before' = db'
    /\ manual' = manual + 1
    /\ UNCHANGED <<pc, passes, locals, mvars, svars>>

ServiceNext ==
    \/ StartPass
    \/ FetchA \/ FetchAFails
    \/ FetchB \/ FetchBFails \/ FetchBRaises \/ FetchBHangs
    \/ Filter
    \/ Match
    \/ Merge
    \/ ResolveStale \/ CloseHangs
    \/ RefreshOrphans
    \/ Commit \/ CommitFails
    \/ Return
    \/ AcknowledgeAlerts
    \/ ResolveAlerts

ServiceSpec == Init /\ [][ServiceNext]_vars

----------------------------------------------------------------------------
(* acknowledge_alerts called by another request while a pass is running *)

\* the rows _mark_resolved_alerts of the running pass has loaded and changed; their
\* UPDATE is sent by the autoflush of the next query, so until _update_orphaned_jsm_alerts
\* runs the pass holds no lock on them
LoadedUnflushed ==
    {id \in DOMAIN db_before :
        db_before[id].grafana_status = "active" /\ id \notin active_grafana_alert_ids}

\* AlertService.acknowledge_alerts with its own Session, committed while the pass is
\* between _mark_resolved_alerts and _update_orphaned_jsm_alerts
AcknowledgeInFlight ==
    /\ pc = "REFRESH_ORPHANS"
    /\ ~SessionFailed
    /\ manual < MaxManual
    /\ \E ids \in (SUBSET LoadedUnflushed) \ {{}}, user \in ManualUsers, committed \in BOOLEAN :
         \E outcomes \in [{id \in ids : HasJsm(db[id])} -> AckOutcomes] :
            /\ db' = IF committed
                     THEN [id \in DOMAIN db |->
                             IF id \in ids
                             THEN acknowledge_one(db[id], Outcome(outcomes, id), user)
                             ELSE db[id]]
                     ELSE db
            /\ request' = [op |-> "acknowledge", ids |-> ids, user |-> user, result |-> committed]
    /\ manual' = manual + 1
    /\ UNCHANGED <<sess, db_before, pc, passes, locals, mvars, svars>>

RaceNext ==
    \/ StartPass
    \/ FetchA \/ FetchAFails
    \/ FetchB \/ FetchBFails \/ FetchBRaises \/ FetchBHangs
    \/ Filter
    \/ Match
    \/ Merge
    \/ ResolveStale \/ CloseHangs
    \/ RefreshOrphans
    \/ Commit \/ CommitFails
    \/ Return
    \/ AcknowledgeInFlight

RaceSpec == Init /\ [][RaceNext]_vars

----------------------------------------------------------------------------
(* The matcher on its own: every list of catalogue records, in every order *)

MatchInit ==
    /\ gl \in SeqsUpTo(MatcherGrafana, MaxGrafana)
    /\ jl \in {s \in SeqsUpTo(MatcherJsm, MaxJsm) : UniqueIds(s)}
    /\ mres = <<>>
    /\ mpc = "input"
    /\ EngineOff
    /\ SchedOff

CallMatch ==
    /\ mpc = "input"
    /\ LET r == match_grafana_with_jsm(gl, jl)
       IN  /\ mres' = r.matched
           /\ mpc' = IF r.raised THEN "raised" ELSE "done"
    /\ UNCHANGED <<gl, jl, evars, svars>>

\* the same service object is called a second time with the same two lists
CallMatchAgain ==
    /\ mpc = "done"
    /\ LET r == match_grafana_with_jsm_after(mres, gl, jl)
       IN  /\ mres' = r.matched
           /\ mpc' = IF r.raised THEN "raised" ELSE "again"
    /\ UNCHANGED <<gl, jl, evars, svars>>

MatchNext == CallMatch \/ CallMatchAgain

MatchSpec == MatchInit /\ [][MatchNext]_vars

Bound(m) == m.jsm_alert # NoJsm

\* ids bound by the results before position i
BoundBefore(i) == {mres[k].jsm_alert.id : k \in {n \in 1..(i - 1) : Bound(mres[n])}}

\* C1: in one call of match_grafana_with_jsm no JSM alert id is the jsm_alert of
\* more than one returned match_info.
C1_UniqueAssignment ==
    mpc = "done" =>
        \A i, k \in 1..Len(mres) :
            (Bound(mres[i]) /\ Bound(mres[k]) /\ mres[i].jsm_alert.id = mres[k].jsm_alert.id)
                => i = k

\* a later Grafana alert scored best against a JSM alert an earlier one had taken,
\* and was bound to another one
C1_Witness ==
    /\ mpc = "done"
    /\ \E i, k \in 1..Len(mres) :
        /\ i < k
        /\ Bound(mres[i]) /\ Bound(mres[k])
        /\ calculate_content_similarity_score(gl[k], mres[i].jsm_alert)
               > mres[k].match_confidence

\* C9: a Grafana alert whose fingerprint is the alias of a JSM alert not yet used is
\* bound to that JSM alert with match type alias and confidence 95.
C9_AliasShortCircuit ==
    mpc = "done" =>
        \A i \in 1..Len(mres) : \A n \in 1..Len(jl) :
            (jl[n].alias = create_alert_fingerprint(gl[i]) /\ jl[n].id \notin BoundBefore(i))
                => /\ mres[i].jsm_alert = jl[n]
                   /\ mres[i].match_type = "alias"
                   /\ mres[i].match_confidence = 95

Score(i, n) == calculate_content_similarity_score(gl[i], jl[n])

\* the best score of Grafana alert i among the JSM alerts other than n, 0 if none
BestOther(i, n) ==
    LET S == {Score(i, m) : m \in (1..Len(jl)) \ {n}}
    IN  IF S = {} THEN 0 ELSE CHOOSE x \in S : \A y \in S : y <= x

\* C10: when two Grafana alerts both score above the threshold against the same JSM
\* alert (the best candidate of both), with different scores, the one with the higher
\* score is bound to it whatever the order of the Grafana alerts; the other one gets
\* its next-best candidate above the threshold, or none.
C10_HigherScoreBinds ==
    mpc = "done" =>
        \A i, k \in 1..Len(gl) : \A n \in 1..Len(jl) :
            (/\ Len(gl) = 2
             /\ Score(i, n) > ALERT_MATCH_CONFIDENCE_THRESHOLD
             /\ Score(k, n) > ALERT_MATCH_CONFIDENCE_THRESHOLD
             /\ Score(i, n) > Score(k, n)
             /\ Score(i, n) > BestOther(i, n)
             /\ Score(k, n) > BestOther(k, n))
                => /\ mres[i].jsm_alert = jl[n]
                   /\ mres[k].jsm_alert # jl[n]
                   /\ mres[k].match_confidence =
                        (IF BestOther(k, n) > ALERT_MATCH_CONFIDENCE_THRESHOLD
                         THEN BestOther(k, n) ELSE 0)

\* positions of the JSM alerts no earlier result of the call is bound to
Unused(i) == {n \in 1..Len(jl) : jl[n].id \notin BoundBefore(i)}

\* the highest score of Grafana alert i among the unused JSM alerts, 0 if there is none
MaxUnused(i) ==
    LET S == {Score(i, n) : n \in Unused(i)}
    IN  IF S = {} THEN 0 ELSE CHOOSE x \in S : \A y \in S : y <= x

\* C11: each Grafana alert is bound to an unused JSM alert of maximum score exactly
\* when that score is strictly above the threshold (a score equal to it does not
\* match); the confidence is that score and the match type is high_confidence from
\* 90, content_similarity from 70 to 89 and low_confidence below; otherwise the result
\* is none with confidence 0.
C11_SelectAndClassify ==
    mpc = "done" =>
        \A i \in 1..Len(mres) :
            IF MaxUnused(i) > ALERT_MATCH_CONFIDENCE_THRESHOLD
            THEN /\ Bound(mres[i])
                 /\ \E n \in Unused(i) : jl[n] = mres[i].jsm_alert /\ Score(i, n) = MaxUnused(i)
                 /\ mres[i].match_confidence = MaxUnused(i)
                 /\ mres[i].match_type =
                        (IF MaxUnused(i) >= 90 THEN "high_confidence"
                         ELSE IF MaxUnused(i) >= 70 THEN "content_similarity"
                         ELSE "low_confidence")
            ELSE /\ ~Bound(mres[i])
                 /\ mres[i].match_type = "none"
                 /\ mres[i].match_confidence = 0

\* one alert whose best score equals the threshold stays unmatched, and the call
\* returns a content_similarity match and a low_confidence match
C11_Witness ==
    /\ mpc = "done"
    /\ \E i \in 1..Len(mres) :
           MaxUnused(i) = ALERT_MATCH_CONFIDENCE_THRESHOLD /\ ~Bound(mres[i])
    /\ \A ty \in {"content_similarity", "low_confidence"} :
           \E k \in 1..Len(mres) : mres[k].match_type = ty

\* the unused JSM alerts that share the maximum score of Grafana alert i
Ties(i) == {n \in Unused(i) : Score(i, n) = MaxUnused(i)}

\* C30: when several unused JSM alerts share the maximum score of a Grafana alert, above
\* the threshold, the alert is bound to the one that comes first in jsm_alerts.
C30_FirstOfTies ==
    mpc = "done" =>
        \A i \in 1..Len(mres) :
            Bound(mres[i]) =>
                \E n \in Ties(i) :
                    /\ \A m \in Ties(i) : n <= m
                    /\ mres[i].jsm_alert = jl[n]

\* two unused JSM alerts tie for the maximum, above the threshold, and the first is bound
C30_Witness ==
    /\ mpc = "done"
    /\ \E i \in 1..Len(mres) :
        /\ Bound(mres[i])
        /\ MaxUnused(i) > ALERT_MATCH_CONFIDENCE_THRESHOLD
        /\ \E n, m \in Ties(i) : n < m /\ mres[i].jsm_alert = jl[n]

C33_NameSimilarity ==
    mpc = "done" =>
        \A i \in 1..Len(gl) : \A n \in 1..Len(jl) :
            LET gn == Lower(gl[i].alert_name)
                jn == Lower(extract_alert_name_from_jsm(jl[n]))
                common == Cardinality(ToSet(gn) \cap ToSet(jn))
                larger == Max(Cardinality(ToSet(gn)), Cardinality(ToSet(jn)))
            IN  (gn # <<>> /\ jn # <<>>) =>
                    NameScore(gl[i], jl[n]) =
                        (IF Contains(jn, gn) \/ Contains(gn, jn) THEN 40
                         ELSE IF 10 * common >= 6 * larger THEN 30
                         ELSE 0)

\* the points for the distance of two well-formed timestamps, in seconds
Band(d) == IF d < 300 THEN 10 ELSE IF d < 900 THEN 5 ELSE IF d < 3600 THEN 2 ELSE 0

C38_GreedyInOrder ==
    mpc = "done" =>
        /\ Len(mres) = Len(gl)
        /\ \A i \in 1..Len(mres) :
              /\ mres[i].grafana_alert = gl[i]
              /\ Bound(mres[i]) =>
                    /\ mres[i].jsm_alert.id \notin BoundBefore(i)
                    /\ mres[i].match_confidence = MaxUnused(i)
        /\ \A k \in 0..Len(gl) :
              SubSeq(mres, 1, k) = match_grafana_with_jsm(SubSeq(gl, 1, k), jl).matched

\* an earlier alert holds a JSM alert against which a later alert scores higher than
\* the earlier one did; the later alert was given another one or none
C38_Witness ==
    /\ mpc = "done"
    /\ \E i, k \in 1..Len(mres) : \E n \in 1..Len(jl) :
        /\ i < k
        /\ Bound(mres[i]) /\ mres[i].jsm_alert = jl[n]
        /\ Score(k, n) > mres[i].match_confidence
        /\ mres[k].jsm_alert # jl[n]
    /\ \E m \in 1..Len(mres) : ~Bound(mres[m])

\* the six contributions of the score of a pair
Parts(g, j) ==
    <<NameScore(g, j), ClusterScore(g, j), SeverityScore(g, j), ContentScore(g, j),
      TimeScore(g, j), SourceScore(g, j)>>

\* C12: every score, every confidence the matcher returns and every match_confidence
\* written to a row from a result lies in 0..100, and the score of a pair is the sum
\* of its name, cluster, severity, content, time and source contributions, capped at
\* 100.
C12_ConfidenceRange ==
    mpc = "done" =>
        /\ \A i \in 1..Len(gl) : \A n \in 1..Len(jl) :
              LET p == Parts(gl[i], jl[n])
              IN  /\ Score(i, n) \in 0..100
                  /\ Score(i, n) = Min(p[1] + p[2] + p[3] + p[4] + p[5] + p[6], 100)
        /\ \A i \in 1..Len(mres) :
              /\ mres[i].match_confidence \in 0..100
              /\ create_new_alert(gl[i], mres[i]).match_confidence \in 0..100
              /\ update_existing_alert(NewAlert(gl[i]), gl[i], mres[i]).match_confidence
                     \in 0..100

\* a pair whose contributions add up to more than 100 was bound
C12_Witness ==
    /\ mpc = "done"
    /\ \E i \in 1..Len(mres) :
        /\ Bound(mres[i])
        /\ LET p == Parts(gl[i], mres[i].jsm_alert)
           IN  p[1] + p[2] + p[3] + p[4] + p[5] + p[6] > 100
        /\ mres[i].match_confidence = 100

----------------------------------------------------------------------------
(* Properties of the synchronization pass *)

FetchedIds == {grafana_alerts[i].alert_id : i \in 1..Len(grafana_alerts)}

ActiveBefore(id) == id \in DOMAIN db_before /\ db_before[id].grafana_status = "active"

\* C2: when either fetch of a pass fails, sync_alerts ends ABORTED: it raises to the
\* caller, no MATCH, MERGE, RESOLVE_STALE or REFRESH_ORPHANS step runs and the Store
\* is as before the pass.
C2_FetchFailureAborts ==
    (/\ pc \in {"COMMITTED", "ABORTED"}
     /\ \/ fetch_out.a = "error"
        \/ fetch_out.b \in {"no_cloud_id", "request_exception", "malformed"})
        => /\ pc = "ABORTED"
           /\ raised
           /\ db = db_before
           /\ ToSet(steps) \cap {"MATCH", "MERGE", "RESOLVE_STALE", "REFRESH_ORPHANS"} = {}

\* C3: after a committed pass every row that was active when the pass began and whose
\* alert_id is not among the fetched Grafana alerts is resolved, and if it had a JSM
\* alert id with a mirrored status other than closed, that id was passed to
\* close_jsm_alert.
C3_StaleResolved ==
    pc = "COMMITTED" =>
        \A id \in DOMAIN db_before :
            (ActiveBefore(id) /\ id \notin FetchedIds)
                => /\ db[id].grafana_status = "resolved"
                   /\ NeedsClose(db_before[id]) => db_before[id].jsm_alert_id \in close_calls

C3_Witness ==
    /\ pc = "COMMITTED"
    /\ \E id \in DOMAIN db_before :
        /\ ActiveBefore(id) /\ id \notin FetchedIds
        /\ NeedsClose(db_before[id])
        /\ close_out[id] # "closed"

\* C4: a pass resolves an active row, and calls close_jsm_alert for its JSM alert, only
\* if the row's alert_id is absent from the fetched Grafana alerts; a row whose alert
\* is fetched but dropped by the filter stays active.
C4_ResolvedOnlyIfAbsent ==
    pc = "COMMITTED" =>
        /\ \A id \in DOMAIN db_before :
              (ActiveBefore(id) /\ db[id].grafana_status = "resolved")
                  => id \notin FetchedIds
        /\ close_calls \subseteq
              {db_before[id].jsm_alert_id : id \in (DOMAIN db_before) \ FetchedIds}

\* C5: running the pass again on the Store a pass has committed, with the same fetch
\* results and the same close outcomes, leaves every field of every row as it is.
C5_Idempotent ==
    pc = "COMMITTED" =>
        sync_store(db, grafana_alerts, jsm_alerts, close_out) = db

C5_Witness ==
    /\ pc = "COMMITTED"
    /\ db # db_before
    /\ close_calls # {}
    /\ \E id \in active_grafana_alert_ids :
           db[id].jsm_alert_id # NULL /\ db[id].acknowledged_by # NULL

\* the rows close_jsm_alert was called for in this pass and did not close
CloseFailed == {id \in DOMAIN close_out : close_out[id] # "closed"}

\* C14: a close_jsm_alert call that returns False or raises stops nothing: once
\* _mark_resolved_alerts is done, the row of the failed call and every other row the
\* pass selected are resolved in the session, the pass has not aborted, and the
\* committed Store shows all of them resolved.
C14_BestEffortClose ==
    CloseFailed # {} =>
        /\ pc \in {"REFRESH_ORPHANS", "COMMIT", "COMMITTED"} =>
              \A id \in DOMAIN db_before :
                  (ActiveBefore(id) /\ id \notin active_grafana_alert_ids)
                      => sess[id].grafana_status = "resolved"
        /\ pc = "COMMITTED" =>
              \A id \in DOMAIN close_out : db[id].grafana_status = "resolved"
        /\ pc = "ABORTED" => steps[Len(steps)] = "COMMIT"

\* a committed pass with two stale rows: the close of one raised, the close of the
\* other returned False or True
C14_Witness ==
    /\ pc = "COMMITTED"
    /\ \E id, other \in DOMAIN close_out :
        /\ id # other
        /\ close_out[id] = "raises"
        /\ close_out[other] # "raises"
        /\ db[id].grafana_status = "resolved"
        /\ db[other].grafana_status = "resolved"

\* C15: a pass ends ABORTED only through a fetch that failed or a commit that
\* raised; an error on one record in FILTER, MATCH, MERGE, RESOLVE_STALE or
\* REFRESH_ORPHANS does not abort it.
C15_OnlyFetchOrCommitAborts ==
    pc = "ABORTED" => steps[Len(steps)] \in {"FETCH_A", "FETCH_B", "COMMIT"}

\* C16: when the merge of one MatchResult raises, only that record is skipped: right
\* after MERGE every other MatchResult of the pass has its row in the Session, active.
C16_MergeIsolation ==
    pc = "RESOLVE_STALE" =>
        \A i \in 1..Len(matched_alerts) :
            LET id == sanitize_alert_data(matched_alerts[i].grafana_alert).alert_id
                failed == IF SessionFailed
                          THEN sanitize_alert_data(matched_alerts[flush_failed].grafana_alert).alert_id
                          ELSE NULL
            IN  (id \notin {NULL, ""} /\ id # failed) =>
                    id \in DOMAIN sess /\ sess[id].grafana_status = "active"

\* C19: every started pass eventually reaches COMMITTED or ABORTED, also when an
\* upstream never responds.
C19_PassTerminates == (pc = "FETCH_A") ~> (pc \in {"COMMITTED", "ABORTED"})

\* C20: the steps of a pass run in the order FETCH_A, FETCH_B, FILTER, MATCH, MERGE,
\* RESOLVE_STALE, REFRESH_ORPHANS, COMMIT, none twice; no row is created or updated
\* before MATCH has produced the complete list of MatchResults; a pass that ended is
\* COMMITTED after all eight steps, or ABORTED with the exception raised.
C20_StepOrder ==
    /\ Len(steps) <= Len(StepOrder)
    /\ steps = SubSeq(StepOrder, 1, Len(steps))
    /\ pc \in {StepOrder[i] : i \in DOMAIN StepOrder} => pc = StepOrder[Len(steps) + 1]
    /\ Len(steps) <= 4 => sess = db_before /\ db = db_before
    /\ pc = "MERGE" =>
           matched_alerts = match_grafana_with_jsm(filtered_grafana_alerts, jsm_alerts).matched
    /\ pc = "COMMITTED" => steps = StepOrder /\ ~raised
    /\ pc = "ABORTED" => steps # <<>> /\ raised

\* a pass that matched a JSM alert, wrote rows and committed
C20_Witness ==
    /\ pc = "COMMITTED"
    /\ steps = StepOrder
    /\ db # db_before
    /\ Len(matched_alerts) >= 2
    /\ \E i \in 1..Len(matched_alerts) : matched_alerts[i].jsm_alert # NoJsm

\* the rows the orphan refresh of this pass is about: bound before the pass, not
\* visited by MERGE, and their JSM alert is among the fetched ones
Orphans ==
    {id \in DOMAIN db_before :
        /\ db_before[id].jsm_alert_id # NULL
        /\ id \notin active_grafana_alert_ids
        /\ \E i \in 1..Len(jsm_alerts) : jsm_alerts[i].id = db_before[id].jsm_alert_id}

\* C21: a committed pass leaves every such row with the status, acknowledged flag,
\* owner, priority, tags, count and legacy status of its fetched JSM alert, and with the
\* match_type, match_confidence and jsm_alert_id it had before the pass.
C21_OrphanRefresh ==
    pc = "COMMITTED" =>
        \A id \in Orphans :
            LET j == ById(jsm_alerts, db_before[id].jsm_alert_id)
            IN  /\ db[id].jsm_status = j.status
                /\ db[id].jsm_acknowledged = j.acknowledged
                /\ db[id].jsm_owner = j.owner
                /\ db[id].jsm_priority = j.priority
                /\ db[id].jsm_tags = j.tags
                /\ db[id].jsm_count = j.count
                /\ db[id].jira_status = map_jsm_to_jira_status(j.status)
                /\ db[id].match_type = db_before[id].match_type
                /\ db[id].match_confidence = db_before[id].match_confidence
                /\ db[id].jsm_alert_id = db_before[id].jsm_alert_id

\* a row bound to b1 with a match below 100 is absent from the fetch, the close call for
\* it did not succeed, and the fetched b1 is closed: the refresh changed its status
C21_Witness ==
    /\ pc = "COMMITTED"
    /\ \E id \in Orphans :
        /\ db_before[id].jsm_status = "open"
        /\ db[id].jsm_status = "closed"
        /\ id \in DOMAIN close_out /\ close_out[id] # "closed"
        /\ db[id].match_confidence \in 1..99

\* C35: when close_jsm_alert succeeded for a stale row, the Store committed by the same
\* pass shows the row with jsm_status closed, also when the fetch of the pass holds the
\* JSM alert with the status it had before the close.
C35_CloseSurvivesRefresh ==
    pc = "COMMITTED" =>
        \A id \in DOMAIN close_out :
            close_out[id] = "closed" => db[id].jsm_status = "closed"

\* C36: in the Store, after any sequence of passes, no JSM alert id is the jsm_alert_id
\* of more than one row, active and resolved rows counted alike.
C36_StoreExclusive ==
    \A id, other \in DOMAIN db :
        (db[id].jsm_alert_id # NULL /\ db[id].jsm_alert_id = db[other].jsm_alert_id)
            => id = other

\* the rows that were bound before the pass and that MERGE of this pass left unbound
Unbound ==
    {id \in DOMAIN db_before \cap active_grafana_alert_ids :
        db_before[id].jsm_alert_id # NULL /\ db[id].jsm_alert_id = NULL}

\* C22: when MERGE processes a MatchResult without a JSM alert for a row that was bound
\* in an earlier pass, the committed row has match_type none, confidence 0 and every
\* field mirrored from the JSM alert cleared: id, status, acknowledged flag, owner,
\* priority, tags and timestamps.
C22_UnboundClearsMirror ==
    pc = "COMMITTED" =>
        \A id \in Unbound :
            /\ db[id].match_type = "none" /\ db[id].match_confidence = 0
            /\ db[id].jsm_status = NULL
            /\ ~db[id].jsm_acknowledged
            /\ db[id].jsm_owner = NULL
            /\ db[id].jsm_priority = NULL
            /\ db[id].jsm_tags = <<>>
            /\ db[id].jsm_created_at = TNone /\ db[id].jsm_updated_at = TNone

\* the row had an acknowledger when the pass began
HadAcknowledger(id) ==
    id \in DOMAIN db_before /\ db_before[id].acknowledged_by \notin {NULL, ""}

\* the fetched JSM alert a committed row mirrors, if any
Mirrors(id) ==
    /\ db[id].jsm_alert_id # NULL
    /\ \E i \in 1..Len(jsm_alerts) : jsm_alerts[i].id = db[id].jsm_alert_id

\* C23: a pass that mirrors an acknowledged JSM alert into a row without acknowledger
\* stamps acknowledged_by from the alert's owner and acknowledged_at from the alert's
\* update time, or the time of the pass if the alert has none; a row that has an
\* acknowledger keeps it and its timestamp.
C23_InferredAcknowledgment ==
    pc = "COMMITTED" =>
        \A id \in DOMAIN db :
            /\ HadAcknowledger(id) =>
                  /\ db[id].acknowledged_by = db_before[id].acknowledged_by
                  /\ db[id].acknowledged_at = db_before[id].acknowledged_at
            /\ (~HadAcknowledger(id) /\ Mirrors(id)) =>
                  LET j == ById(jsm_alerts, db[id].jsm_alert_id)
                  IN  j.acknowledged =>
                        /\ db[id].acknowledged_by =
                               IF j.owner \in {NULL, ""} THEN "JSM User" ELSE j.owner
                        /\ db[id].acknowledged_at =
                               IF j.updatedAt >= 0 THEN j.updatedAt ELSE TNow

\* C24: a step of a pass takes a row from resolved to active only in MERGE and only if
\* the row's alert_id is among the Grafana alerts this pass fetched; RESOLVE_STALE,
\* REFRESH_ORPHANS and COMMIT never do (the rollback of an aborted pass restores the
\* committed rows).
C24_ResolvedMonotonic ==
    [][\A id \in DOMAIN sess \cap DOMAIN sess' :
          (sess[id].grafana_status = "resolved" /\ sess'[id].grafana_status = "active")
              => \/ pc' = "ABORTED"
                 \/ pc = "MERGE" /\ id \in FetchedIds]_vars

\* a committed pass that found a row resolved, fetched its alert again and left it active
C24_Witness ==
    /\ pc = "COMMITTED"
    /\ \E id \in DOMAIN db_before :
        /\ db_before[id].grafana_status = "resolved"
        /\ db[id].grafana_status = "active"
        /\ id \in FetchedIds

MatchedId(k) == sanitize_alert_data(matched_alerts[k].grafana_alert).alert_id

\* C25: the Store holds one row per alert_id: MERGE inserts a row for an alert_id at
\* most once in a pass, also when the alert_id is fetched twice, and never for an
\* alert_id that has a row; a row's alert_id is the one it was created with; no step of
\* a pass or manual action removes a row.
C25_IdentityStable ==
    /\ [](\A id \in DOMAIN db : db[id].grafana.alert_id = id)
    /\ [](\A id \in DOMAIN sess : sess[id].grafana.alert_id = id)
    /\ [](pc = "RESOLVE_STALE" =>
             \A k, m \in CreatePositions(matched_alerts, db_before) :
                 /\ MatchedId(k) \notin DOMAIN db_before
                 /\ MatchedId(k) = MatchedId(m) => k = m)
    /\ [][DOMAIN db \subseteq DOMAIN db']_vars

\* a committed pass that fetched the same new alert_id twice and created its row
C25_Witness ==
    /\ pc = "COMMITTED"
    /\ Len(matched_alerts) = 2
    /\ MatchedId(1) = MatchedId(2)
    /\ MatchedId(1) \notin DOMAIN db_before
    /\ MatchedId(1) \in DOMAIN db
    /\ DOMAIN db_before # {}

\* ids of the JSM alerts bound by the MatchResults of this pass before position i
UsedBeforeAt(i) ==
    {matched_alerts[k].jsm_alert.id : k \in {n \in 1..(i - 1) : matched_alerts[n].jsm_alert # NoJsm}}

\* no fetched JSM alert that is still unused scores above the threshold for the Grafana
\* alert at position i (none at all when the fetched list is empty)
NoCandidate(i) ==
    \A n \in 1..Len(jsm_alerts) :
        \/ jsm_alerts[n].id \in UsedBeforeAt(i)
        \/ calculate_content_similarity_score(matched_alerts[i].grafana_alert, jsm_alerts[n])
               <= ALERT_MATCH_CONFIDENCE_THRESHOLD

\* C32: a Grafana alert for which no unused JSM alert scores above the threshold, the
\* empty JSM list included, gets a MatchResult with match type none, confidence 0 and no
\* JSM alert, and the committed pass has created or kept its row: active, without JSM
\* alert id, match type none and confidence 0.
C32_NoMatchIsNone ==
    /\ (Len(steps) >= 4 /\ pc # "ABORTED") =>
           /\ Len(matched_alerts) = Len(filtered_grafana_alerts)
           /\ \A i \in 1..Len(matched_alerts) :
                  NoCandidate(i) =>
                      /\ matched_alerts[i].jsm_alert = NoJsm
                      /\ matched_alerts[i].match_type = "none"
                      /\ matched_alerts[i].match_confidence = 0
    /\ pc = "COMMITTED" =>
           \A i \in 1..Len(matched_alerts) :
               (NoCandidate(i) /\ MatchedId(i) \notin {NULL, ""}) =>
                   /\ MatchedId(i) \in DOMAIN db
                   /\ db[MatchedId(i)].grafana_status = "active"
                   /\ db[MatchedId(i)].jsm_alert_id = NULL
                   /\ db[MatchedId(i)].match_type = "none"
                   /\ db[MatchedId(i)].match_confidence = 0

\* a committed pass whose JSM fetch was empty created the row of one alert and kept the
\* row of another, which an earlier pass had bound
C32_Witness ==
    /\ pc = "COMMITTED"
    /\ jsm_alerts = <<>>
    /\ \E i, k \in 1..Len(matched_alerts) :
        /\ MatchedId(i) \notin DOMAIN db_before
        /\ MatchedId(i) \in DOMAIN db
        /\ MatchedId(k) \in DOMAIN db_before
        /\ db_before[MatchedId(k)].jsm_alert_id # NULL
        /\ db[MatchedId(k)].jsm_alert_id = NULL

\* the exclusion policy: a cluster label that contains "stage" in any case, or the
\* environment label devo-stage-eu
DenyListed(g) ==
    \/ \E i \in 1..Len(g.labels.cluster) : LowerTok(g.labels.cluster[i]) = "stage"
    \/ g.labels.env = <<"devo", "stage", "eu">>

Allowed(g) == ~DenyListed(g)

\* the alert_ids this pass fetched only in deny-listed alerts
DeniedIds ==
    {id \in FetchedIds :
        \A i \in 1..Len(grafana_alerts) : grafana_alerts[i].alert_id = id => DenyListed(grafana_alerts[i])}

InFlight ==
    {"FETCH_A", "FETCH_B", "FILTER", "MATCH", "MERGE", "RESOLVE_STALE",
     "REFRESH_ORPHANS", "COMMIT", "HUNG"}

\* C8: while a pass is in flight and after it aborted (a commit that raised included),
\* the Store shows none of the pass's mutations; after the commit it shows all of them.
C8_PassAtomic ==
    /\ pc \in InFlight \cup {"ABORTED"} => db = db_before
    /\ pc = "ABORTED" => sess = db
    /\ pc = "COMMITTED" => db = sess

\* the commit raised with a created row pending
C8_Witness ==
    /\ pc = "ABORTED"
    /\ "COMMIT" \in ToSet(steps)
    /\ \E id \in active_grafana_alert_ids : id \notin DOMAIN db

----------------------------------------------------------------------------
(* Properties of the Store under passes and manual actions *)

\* C26: after acknowledge_alerts (resolve_alerts) returned True, every row named in the
\* request carries the requested actor and the time of the call as acknowledger
\* (resolver, with grafana_status resolved), whether the remote call succeeded,
\* returned False or raised.
C26_ManualBookkeeping ==
    request.result =>
        \A id \in request.ids :
            /\ request.op = "acknowledge" =>
                  /\ db[id].acknowledged_by = request.user
                  /\ db[id].acknowledged_at = TNow
            /\ request.op = "resolve" =>
                  /\ db[id].resolved_by = request.user
                  /\ db[id].resolved_at = TNow
                  /\ db[id].grafana_status = "resolved"

\* the alert_ids MERGE of this pass visits: those of the fetched alerts the filter kept,
\* the empty ones left out
Visited ==
    {sanitize_alert_data(filtered_grafana_alerts[i]).alert_id : i \in 1..Len(filtered_grafana_alerts)}
        \ {NULL, ""}

NewlyStale ==
    {id \in DOMAIN db_before : ActiveBefore(id) /\ id \notin active_grafana_alert_ids}

\* C40: a pass calls close_jsm_alert only for rows that were active when RESOLVE_STALE
\* began and that it resolves; for a row that was resolved when the pass began, one whose
\* earlier close failed included, the pass makes no close call.
C40_CloseOnlyNewlyStale ==
    /\ DOMAIN close_out \subseteq NewlyStale
    /\ close_calls \subseteq {db_before[id].jsm_alert_id : id \in NewlyStale}
    /\ pc \in {"REFRESH_ORPHANS", "COMMIT", "COMMITTED"} =>
           \A id \in DOMAIN close_out : sess[id].grafana_status = "resolved"
    /\ \A id \in DOMAIN db_before :
           db_before[id].grafana_status = "resolved" => id \notin DOMAIN close_out

\* a committed pass closed the JSM alert of one row and made no call for another row,
\* resolved earlier with a close that failed and still not closed
C40_Witness ==
    /\ pc = "COMMITTED"
    /\ \E id, other \in DOMAIN db_before :
        /\ db_before[id].grafana_status = "resolved"
        /\ NeedsClose(db_before[id])
        /\ id \notin active_grafana_alert_ids
        /\ id \notin DOMAIN close_out
        /\ db_before[id].jsm_alert_id \notin close_calls
        /\ other \in DOMAIN close_out
        /\ close_out[other] = "closed"

\* C39: an acknowledgment that acknowledge_alerts committed while a pass was running,
\* for a row the pass had loaded, is not lost: the commit of the pass leaves
\* acknowledged_by and acknowledged_at of that row as the manual action wrote them.
C39_ManualAckNotLost ==
    [][(pc = "COMMIT" /\ pc' = "COMMITTED") =>
          \A id \in DOMAIN db \cap DOMAIN db_before :
              db[id].acknowledged_by # db_before[id].acknowledged_by =>
                  /\ db'[id].acknowledged_by = db[id].acknowledged_by
                  /\ db'[id].acknowledged_at = db[id].acknowledged_at]_vars

\* C13: in the Store, after every committed pass and every manual action, a row whose
\* match_type is none has match_confidence 0 and no JSM alert id.
C13_NoneMeansUnbound ==
    \A id \in DOMAIN db :
        db[id].match_type = "none"
            => db[id].match_confidence = 0 /\ db[id].jsm_alert_id = NULL

\* a row that was bound by one pass and unbound by the next has been acknowledged by
\* hand
C13_Witness ==
    /\ pc = "idle"
    /\ \E id \in DOMAIN db :
        /\ db[id].match_type = "none"
        /\ db[id].jsm_tiny_id # NULL
        /\ db[id].acknowledged_by \in ManualUsers

----------------------------------------------------------------------------
(* Properties of the scheduler *)

\* C6: no job ever has two firings running at once, and a firing that becomes due
\* while the previous firing of the job still runs is skipped and dropped: every due
\* firing was either started then or skipped, none is kept to run later.
C6_NonOverlap ==
    \A j \in JobNames :
        /\ instances[j] <= 1
        /\ instances[j] = started[j] - finished[j]
        /\ due[j] = started[j] + skipped[j]

\* a firing was skipped while the first one ran, the first one has returned and the
\* skipped one has not run
C6_Witness ==
    \E j \in JobNames :
        /\ skipped[j] = 1 /\ due[j] = 2
        /\ started[j] = 1 /\ finished[j] = 1 /\ instances[j] = 0

\* C7: every firing that was started and has finished executed the body of the job
\* function once, that is one call of sync_alerts.
C7_FiringRunsPass == \A j \in JobNames : bodies[j] = finished[j]

LoadedTimers ==
    [j \in JobNames |->
        IF \E c \in CronConfigs : c.job_name = j /\ c.is_enabled
        THEN (CHOOSE c \in CronConfigs : c.job_name = j /\ c.is_enabled).cron_expression
        ELSE NULL]

\* C28: the constructor loads no job; while the tables are missing no step adds a timer
\* or sets _jobs_loaded; _jobs_loaded is set by a call made when the tables exist, which
\* loads the enabled job definitions; no timer exists and no firing occurs before that.
C28_ReadinessGate ==
    /\ [](jobs_loaded => tables_ready)
    /\ [](~jobs_loaded => \A j \in JobNames : timers[j] = NULL /\ due[j] = 0)
    /\ [][~tables_ready => UNCHANGED <<timers, jobs_loaded>>]_vars
    /\ [][(~jobs_loaded /\ jobs_loaded') => tables_ready /\ timers' = LoadedTimers]_vars

\* the jobs were loaded once the tables existed, and a loaded job has fired
C28_Witness ==
    /\ jobs_loaded /\ tables_ready
    /\ \E j \in JobNames : LoadedTimers[j] # NULL /\ started[j] >= 1
    /\ \E j \in JobNames : LoadedTimers[j] = NULL /\ timers[j] = NULL

========================================================================
